---- MODULE Spec2Model ----
(***************************************************************************)
(* The Sonifier service of public/app/core/services/Sonifier.ts: a queue   *)
(* of tones played one after the other through Web Audio oscillators, each *)
(* oscillator's onended callback starting the next tone.                   *)
(*                                                                         *)
(* A frequency baseFrequency * 2^(d/12) is represented by its semitone     *)
(* distance d from the base frequency (every frequency the service         *)
(* computes has this form); NaN stands for the JavaScript NaN.             *)
(***************************************************************************)
EXTENDS Integers, Sequences, FiniteSets, TLC

VARIABLES isPlaying, paused, playQueue, oscillators, enqueued, started,
          discarded, held, last,
          fields, harmonicScaleBuckets, deviceOk, thrown, probe

vars == <<isPlaying, paused, playQueue, oscillators, enqueued, started,
          discarded, held, last,
          fields, harmonicScaleBuckets, deviceOk, thrown, probe>>

(* ------------------------------ bounds --------------------------------- *)

\* Samples of the data passed to _harmonizeFrequencies and to _sample.
MaxData == 7

\* The scales option (octave repetitions) of an instance.
MaxScales == 2

\* The maxSamples option (decimation cap) of an instance.
MaxCap == 3

\* Calls of playNote with any note name.
MaxNotes == 2

\* Values of the samples passed to _harmonizeFrequencies.
DataValues == {1, 3, 5}

\* Tones enqueued over one behaviour.
MaxEnqueued == 3

\* Durations (ms) a caller passes to playNote.
Durations == {100, 200}

\* Note names a caller passes to playNote: keys of SemitoneMapping, so that
\* every frequency set on an oscillator here is a finite number.
NoteInputs == {"A", "C"}

\* Samples of a series passed to playSeries (timestamps are 0, 1, ...).
MaxSeries == 2

\* Values of the samples of a series.
Values == {1, 5}

(* --------------------------- program constants ------------------------- *)

A4_FREQUENCY == 440

\* options?.instrument || 'square'
instrument == "square"

\* options?.volume || 0.03, in hundredths.
volume == 3

\* The options the singleton is built with, new Sonifier().
scales == 3

maxSamples == 50

samplingMethod == "systematic"

scale == "major"

\* The duration playSeries gives each tone.
SeriesDuration == 200

Scales == [major |-> <<2, 2, 1, 2, 2, 2, 1, 2>>, minor |-> <<2, 1, 2, 2, 1, 3, 1, 2>>]

\* buckets[i] when i is past the end of the array.
Undefined == -2

\* Math.pow(2, undefined / 12) and everything computed from it.
NaN == -1

SemitoneMapping ==
  [n \in {"A", "Bb", "B", "C", "Dd", "D", "Eb", "E", "F", "Gb", "G", "Ab"} |->
     CASE n = "A"  -> 0  [] n = "Bb" -> 1  [] n = "B"  -> 2  [] n = "C"  -> 3
       [] n = "Dd" -> 4  [] n = "D"  -> 5  [] n = "Eb" -> 6  [] n = "E"  -> 7
       [] n = "F"  -> 8  [] n = "Gb" -> 9  [] n = "G"  -> 10 [] n = "Ab" -> 11]

(* ------------------------------ the state ------------------------------ *)

\* The fields of a Sonifier the playback code reads and writes, as one record:
\*   isPlaying, paused (_paused), playQueue (_playQueue): the fields;
\*   oscillators: the oscillators started and not yet ended, in start order;
\*   enqueued, started: every tone pushed on the queue / started on an
\*     oscillator so far, in order (history);
\*   discarded: the tones stop() removed from the queue (history);
\*   deviceOk: whether the calls on the AudioContext and its nodes succeed;
\*   thrown: whether the call under way has ended with an exception.
\* A tone is the array [t, f] pushed on the queue; id is that array's identity.
Cur ==
  [isPlaying |-> isPlaying, paused |-> paused, playQueue |-> playQueue,
   oscillators |-> oscillators, enqueued |-> enqueued, started |-> started,
   discarded |-> discarded, deviceOk |-> deviceOk, thrown |-> FALSE]

RemoveAt(seq, i) == SubSeq(seq, 1, i - 1) \o SubSeq(seq, i + 1, Len(seq))

SeqRange(seq) == {seq[i] : i \in 1..Len(seq)}

(* ---------------------------- the operations --------------------------- *)

\* advancePlayQueue taking the tone enqueued last (pop for shift).
advancePlayQueue_pop(s) ==
  IF Len(s.playQueue) = 0
    THEN s
    ELSE LET tone == s.playQueue[Len(s.playQueue)] IN
         [s EXCEPT !.playQueue = SubSeq(@, 1, Len(@) - 1),
                   !.oscillators = Append(@, tone),
                   !.started = Append(@, tone),
                   !.isPlaying = TRUE]

\* When a call on the audio device throws, the head has been shifted off the
\* queue (line 88) and the rest of the function, isPlaying = true included,
\* is not run; the exception leaves every caller on the stack.
advancePlayQueue(s) ==
  IF Len(s.playQueue) = 0
    THEN s
  ELSE IF ~s.deviceOk
    THEN [s EXCEPT !.playQueue = Tail(@), !.thrown = TRUE]
    ELSE LET tone == Head(s.playQueue) IN
         [s EXCEPT !.playQueue = Tail(@),
                   !.oscillators = Append(@, tone),
                   !.started = Append(@, tone),
                   !.isPlaying = TRUE]

\* enqueueFrequency without the isPlaying test.
enqueueFrequency_unguarded(s, f, t) ==
  LET tone == [t |-> t, f |-> f, id |-> Len(s.enqueued) + 1]
  IN advancePlayQueue([s EXCEPT !.playQueue = Append(@, tone),
                                !.enqueued = Append(@, tone)])

enqueueFrequency(s, f, t) ==
  LET tone == [t |-> t, f |-> f, id |-> Len(s.enqueued) + 1]
      s1 == [s EXCEPT !.playQueue = Append(@, tone),
                      !.enqueued = Append(@, tone)]
  IN IF ~s1.isPlaying THEN advancePlayQueue(s1) ELSE s1

\* onended that never starts the next tone.
onended_unchained(s, i) ==
  [s EXCEPT !.oscillators = RemoveAt(@, i), !.isPlaying = FALSE]

\* oscilator.onended of the i-th sounding oscillator.
onended(s, i) ==
  LET s1 == [s EXCEPT !.oscillators = RemoveAt(@, i)] IN
  IF Len(s1.playQueue) > 0 /\ ~s1.paused
    THEN advancePlayQueue(s1)
    ELSE [s1 EXCEPT !.isPlaying = FALSE]

\* An oscillator started at time s with duration t stops at s + t: one started
\* later ends before one started earlier only if its duration is shorter.
CanEnd(s, i) ==
  \A j \in 1..(i - 1) : s.oscillators[j].t > s.oscillators[i].t

\* pause() that also empties the queue.
pause_clearing(s) == [s EXCEPT !.paused = TRUE, !.playQueue = <<>>]

pause(s) == [s EXCEPT !.paused = TRUE]

\* stop() that only pauses.
stop_keeping(s) == [s EXCEPT !.paused = TRUE]

stop(s) ==
  [pause(s) EXCEPT !.playQueue = <<>>,
                   !.discarded = @ \cup {tone.id : tone \in SeqRange(s.playQueue)}]

\* play() that only clears the flag.
play_flagOnly(s) == [s EXCEPT !.paused = FALSE]

play(s) == advancePlayQueue([s EXCEPT !.paused = FALSE])

playNote(s, note, duration) ==
  LET f == IF note \in DOMAIN SemitoneMapping THEN SemitoneMapping[note] ELSE NaN
  IN enqueueFrequency(s, f, duration)

(* ------------------------- buckets and sampling ------------------------ *)

\* 10000 * 2^(d/12), to four decimal places for d not a multiple of 12.
Pow2 ==
  <<10000, 10595, 11225, 11892, 12599, 13348, 14142, 14983, 15874, 16818,
    17818, 18877>>

RECURSIVE TwoTo(_)
TwoTo(k) == IF k = 0 THEN 1 ELSE 2 * TwoTo(k - 1)

\* 10000 * Math.pow(2, d / 12)
Pow(d) == TwoTo(d \div 12) * Pow2[(d % 12) + 1]

\* A loop that adds the step to distance before it pushes.
RECURSIVE Distance_addFirst(_, _)
Distance_addFirst(steps, k) ==
  IF k = 0 THEN 0
  ELSE Distance_addFirst(steps, k - 1) + steps[((k - 1) % Len(steps)) + 1]

\* The semitone distance of the k-th value pushed (k = 1, 2, ...).
RECURSIVE Distance(_, _)
Distance(steps, k) ==
  IF k = 1 THEN 0
  ELSE Distance(steps, k - 1) + steps[((k - 2) % Len(steps)) + 1]

initializeHarmonicBuckets(scaleType, octaves) ==
  [k \in 1..(octaves * Len(Scales[scaleType])) |-> Distance(Scales[scaleType], k)]

\* seq with x put after the last element whose key is at most x's (a
\* stable ascending sort, as Array.prototype.sort with (a, b) => a[k] - b[k]).
RECURSIVE InsertBy(_, _, _)
InsertBy(seq, x, k) ==
  IF seq = <<>> THEN <<x>>
  ELSE IF seq[Len(seq)][k] <= x[k] THEN Append(seq, x)
  ELSE Append(InsertBy(SubSeq(seq, 1, Len(seq) - 1), x, k), seq[Len(seq)])

RECURSIVE SortBy(_, _)
SortBy(seq, k) ==
  IF seq = <<>> THEN <<>>
  ELSE InsertBy(SortBy(SubSeq(seq, 1, Len(seq) - 1), k), seq[Len(seq)], k)

NoLimits == [given |-> FALSE, min |-> 0, max |-> 0]

\* buckets[j] of the JavaScript array (j counts from 0).
BucketAt(buckets, j) ==
  IF j >= 0 /\ j < Len(buckets) THEN buckets[j + 1] ELSE Undefined

\* mappedFrequency > buckets[j], where
\*   mappedFrequency = base + ((v - min) / (max - min)) * (maxF - base)
\* with base > 0: divided by base, both sides are compared as
\*   ((v - min) / (max - min)) * (2^(D/12) - 1) > 2^(d/12) - 1.
\* A comparison with undefined or NaN is false; x / 0 is NaN or an infinity.
Exceeds(v, min, max, buckets, j) ==
  LET D == BucketAt(buckets, Len(buckets) - 1)
      d == BucketAt(buckets, j)
  IN IF D = Undefined \/ d = Undefined THEN FALSE
     ELSE IF max - min = 0 THEN v - min > 0 /\ Pow(D) > Pow(0)
     ELSE IF max - min > 0
       THEN (v - min) * (Pow(D) - Pow(0)) > (Pow(d) - Pow(0)) * (max - min)
       ELSE (v - min) * (Pow(D) - Pow(0)) < (Pow(d) - Pow(0)) * (max - min)

\* A loop that goes up the buckets until the frequency is exceeded no more.
RECURSIVE Climb(_, _, _, _, _)
Climb(v, min, max, buckets, j) ==
  IF Exceeds(v, min, max, buckets, j)
    THEN Climb(v, min, max, buckets, j + 1) ELSE j

RECURSIVE Quantize_climbing(_, _, _, _, _, _)
Quantize_climbing(sorted, i, bucketIndex, min, max, buckets) ==
  IF i > Len(sorted) THEN <<>>
  ELSE LET b == Climb(sorted[i][2], min, max, buckets, bucketIndex)
       IN <<(<<sorted[i][1], BucketAt(buckets, b)>>)>>
            \o Quantize_climbing(sorted, i + 1, b, min, max, buckets)

\* The loop of _harmonizeFrequencies from sample i on: the [ts, f] pushed.
RECURSIVE Quantize(_, _, _, _, _, _)
Quantize(sorted, i, bucketIndex, min, max, buckets) ==
  IF i > Len(sorted) THEN <<>>
  ELSE LET b == IF Exceeds(sorted[i][2], min, max, buckets, bucketIndex)
                  THEN bucketIndex + 1 ELSE bucketIndex
       IN <<(<<sorted[i][1], BucketAt(buckets, b)>>)>>
            \o Quantize(sorted, i + 1, b, min, max, buckets)

\* let min = limits?.min || sortedByValue[0][1]
lowerLimit(sortedByValue, limits) ==
  IF limits.given /\ limits.min # 0 THEN limits.min ELSE sortedByValue[1][2]

\* let max = limits?.max || sortedByValue[sortedByValue.length - 1][1]
upperLimit(sortedByValue, limits) ==
  IF limits.given /\ limits.max # 0
    THEN limits.max ELSE sortedByValue[Len(sortedByValue)][2]

\* harmonizedData when the loop is done: a [ts, f] for each sample, in
\* ascending order of value.
harmonizedByValue(data, limits, buckets) ==
  LET sortedByValue == SortBy(data, 2)
  IN Quantize(sortedByValue, 1, 1, lowerLimit(sortedByValue, limits),
              upperLimit(sortedByValue, limits), buckets)

\* data is not empty (playSeries returns before the call when it is).
harmonizeFrequencies(data, limits, buckets) ==
  LET byTime == SortBy(harmonizedByValue(data, limits, buckets), 1)
  IN [i \in 1..Len(byTime) |-> byTime[i][2]]

\* A _sample that never decimates.
Step_one(data, cap) == 1

Step(data, cap) == IF Len(data) >= cap THEN Len(data) \div cap ELSE 1

\* The number of passes of the while loop of _sample (step > 1).
Passes(data, cap) == (Len(data) - 1) \div Step(data, cap)

\* What Math.floor(Math.random() * step) may be in each pass of the loop.
Draws(data, cap, method) ==
  IF method = "random" /\ Step(data, cap) # 1
    THEN [1..Passes(data, cap) -> 0..(Step(data, cap) - 1)]
    ELSE {<<>>}

\* A _sample without the early return: the loop runs with step 1 too.
sample_loopAlways(data, cap, method, draws) ==
  LET step == Step(data, cap) IN
  [k \in 1..Passes(data, cap) |->
     IF method = "random" /\ step # 1
       THEN data[(k * step - draws[k]) + 1]
       ELSE data[(k * step - step) + 1]]

\* cap > 0. data[j] of the JavaScript array is data[j + 1] here.
sample(data, cap, method, draws) ==
  LET step == Step(data, cap) IN
  IF step = 1 THEN data
  ELSE [k \in 1..Passes(data, cap) |->
          IF method = "random"
            THEN data[(k * step - draws[k]) + 1]
            ELSE data[(k * step - step) + 1]]

RECURSIVE enqueueAll(_, _, _)
enqueueAll(s, fs, i) ==
  IF i > Len(fs) \/ s.thrown THEN s
  ELSE enqueueAll(enqueueFrequency(s, fs[i], SeriesDuration), fs, i + 1)

\* A playSeries that goes on to the queue when the series is empty.
playSeries_advancing(s, data, limits, draws) ==
  IF Len(data) = 0 THEN advancePlayQueue(s)
  ELSE enqueueAll(s, harmonizeFrequencies(
                       sample(data, maxSamples, samplingMethod, draws), limits,
                       initializeHarmonicBuckets(scale, scales)), 1)

playSeries(s, data, limits, draws) ==
  IF Len(data) = 0 THEN s
  ELSE LET sampledData == sample(data, maxSamples, samplingMethod, draws)
           harmonizedData ==
             harmonizeFrequencies(sampledData, limits,
                                  initializeHarmonicBuckets(scale, scales))
       IN enqueueAll(s, harmonizedData, 1)

(* ----------------------------- the machine ----------------------------- *)

\* The series and override ranges a caller passes to playSeries.
SeriesInputs ==
  UNION {[1..n -> Values] : n \in 0..MaxSeries}

Stamped(vals) == [i \in 1..Len(vals) |-> <<i - 1, vals[i]>>]

LimitInputs == {NoLimits, [given |-> TRUE, min |-> 0, max |-> 3]}

\* What the last call was, and the fields as they were when it was made.
Snapshot(op, s) ==
  [op |-> op, isPlaying |-> s.isPlaying, paused |-> s.paused,
   playQueue |-> s.playQueue, oscillators |-> s.oscillators,
   nStarted |-> Len(s.started), nEnqueued |-> Len(s.enqueued)]

\* The tones that were waiting when pause() was called with a tone sounding,
\* until play() or stop() is called (history).
Held(op) ==
  IF op = "pause" /\ Len(oscillators) > 0 /\ Len(playQueue) > 0 THEN playQueue
  ELSE IF op \in {"play", "stop"} THEN <<>>
  ELSE held

Effect(op, s) ==
  /\ isPlaying' = s.isPlaying
  /\ paused' = s.paused
  /\ playQueue' = s.playQueue
  /\ oscillators' = s.oscillators
  /\ enqueued' = s.enqueued
  /\ started' = s.started
  /\ discarded' = s.discarded
  /\ held' = Held(op)
  /\ last' = Snapshot(op, Cur)
  /\ thrown' = s.thrown

Becomes(op, s) ==
  /\ Effect(op, s)
  /\ UNCHANGED <<fields, harmonicScaleBuckets, deviceOk, probe>>

\* The public fields the constructor sets from its options (0 and "" stand
\* for an option that is absent or falsy).
construct(options) ==
  [baseFrequency |-> IF options.baseFrequency # 0
                       THEN options.baseFrequency ELSE A4_FREQUENCY,
   scales |-> IF options.scales # 0 THEN options.scales ELSE scales,
   maxSamples |-> IF options.maxSamples # 0 THEN options.maxSamples ELSE maxSamples,
   samplingMethod |-> IF options.samplingMethod # ""
                        THEN options.samplingMethod ELSE samplingMethod,
   scale |-> IF options.scale # "" THEN options.scale ELSE scale,
   instrument |-> IF options.instrument # ""
                    THEN options.instrument ELSE instrument,
   volume |-> IF options.volume # 0 THEN options.volume ELSE volume]

NoOptions ==
  [baseFrequency |-> 0, scales |-> 0, maxSamples |-> 0, samplingMethod |-> "",
   scale |-> "", instrument |-> "", volume |-> 0]

\* The array _initializeHarmonicBuckets fills: base * 2^(semis[k]/12).
builtBuckets(f) ==
  [base |-> f.baseFrequency, semis |-> initializeHarmonicBuckets(f.scale, f.scales)]

NoCall == [fn |-> "new"]

\* The instance new Sonifier(options) returns.
newSonifier(options) ==
  [isPlaying |-> FALSE, paused |-> FALSE, playQueue |-> <<>>,
   oscillators |-> <<>>, enqueued |-> <<>>, started |-> <<>>,
   discarded |-> {}, held |-> <<>>,
   last |-> Snapshot("new", [isPlaying |-> FALSE, paused |-> FALSE,
                             playQueue |-> <<>>, oscillators |-> <<>>,
                             enqueued |-> <<>>, started |-> <<>>,
                             discarded |-> {}]),
   fields |-> construct(options),
   harmonicScaleBuckets |-> builtBuckets(construct(options)),
   deviceOk |-> TRUE, thrown |-> FALSE, probe |-> NoCall]

\* new Sonifier(options)
InitWith(options) ==
  LET n == newSonifier(options)
  IN /\ isPlaying = n.isPlaying
     /\ paused = n.paused
     /\ playQueue = n.playQueue
     /\ oscillators = n.oscillators
     /\ enqueued = n.enqueued
     /\ started = n.started
     /\ discarded = n.discarded
     /\ held = n.held
     /\ last = n.last
     /\ fields = n.fields
     /\ harmonicScaleBuckets = n.harmonicScaleBuckets
     /\ deviceOk = n.deviceOk
     /\ thrown = n.thrown
     /\ probe = n.probe

\* The singleton, new Sonifier().
Init == InitWith(NoOptions)

PlayNote ==
  /\ Len(enqueued) < MaxEnqueued
  /\ \E note \in NoteInputs, duration \in Durations :
       Becomes("playNote", playNote(Cur, note, duration))

PlaySeries ==
  \E vals \in SeriesInputs, limits \in LimitInputs :
    /\ Len(enqueued) + Len(vals) <= MaxEnqueued
    /\ \E draws \in Draws(Stamped(vals), maxSamples, samplingMethod) :
         Becomes("playSeries", playSeries(Cur, Stamped(vals), limits, draws))

Pause == Becomes("pause", pause(Cur))

Stop == Becomes("stop", stop(Cur))

Play == Becomes("play", play(Cur))

OnEnded ==
  \E i \in 1..Len(oscillators) :
    /\ CanEnd(Cur, i)
    /\ Becomes("onended", onended(Cur, i))

Next == PlayNote \/ PlaySeries \/ Pause \/ Stop \/ Play \/ OnEnded

Spec == Init /\ [][Next]_vars

\* The service when stop() is never called.
NextNoStop == PlayNote \/ PlaySeries \/ Pause \/ Play \/ OnEnded

NoStopSpec == Init /\ [][NextNoStop]_vars

\* The service when stop() is never called, every oscillator started ends
\* (ended events are dispatched) and every pause() is followed by a play().
Resume == paused /\ Play

LiveSpec ==
  Init /\ [][NextNoStop]_vars /\ WF_vars(OnEnded) /\ WF_vars(Resume)

(* ----------------------- _harmonizeFrequencies alone -------------------- *)

\* Instances built with a scales and a scale option.
HarmonizeOptions ==
  {[NoOptions EXCEPT !.scales = n, !.scale = t] :
     n \in 1..MaxScales, t \in {"major", "minor"}}

\* Timestamps in chronological order: all different, or equal two by two.
StampedBy(vals, mode) ==
  [i \in 1..Len(vals) |->
     <<(IF mode = "distinct" THEN i - 1 ELSE (i - 1) \div 2), vals[i]>>]

DataInputs ==
  {StampedBy(vals, mode) :
     vals \in UNION {[1..n -> DataValues] : n \in 1..MaxData},
     mode \in {"distinct", "pairs"}}

\* No override range, one narrower than the values, one with min 0, one
\* that is the range of the values.
HarmonizeLimits ==
  {NoLimits, [given |-> TRUE, min |-> -1, max |-> 1],
   [given |-> TRUE, min |-> 0, max |-> 9], [given |-> TRUE, min |-> 1, max |-> 5]}

HarmonizeInit == \E options \in HarmonizeOptions : InitWith(options)

\* The function reads the buckets only and writes no field: one call per
\* instance shows all it can do.
CallHarmonize ==
  /\ probe = NoCall
  /\ \E data \in DataInputs, limits \in HarmonizeLimits :
       probe' = [fn |-> "harmonize", data |-> data, limits |-> limits,
                 out |-> harmonizeFrequencies(data, limits,
                                              harmonicScaleBuckets.semis)]
  /\ UNCHANGED <<isPlaying, paused, playQueue, oscillators, enqueued, started,
                 discarded, held, last, fields, harmonicScaleBuckets, deviceOk,
                 thrown>>

HarmonizeSpec == HarmonizeInit /\ [][CallHarmonize]_vars

(* ------------------------------ _sample alone -------------------------- *)

\* Instances built with a maxSamples of 1 or more and a samplingMethod.
SampleOptions ==
  {[NoOptions EXCEPT !.maxSamples = cap, !.samplingMethod = m] :
     cap \in 1..MaxCap, m \in {"systematic", "random"}}

SampleInputs == {<<>>} \cup DataInputs

SampleInit == \E options \in SampleOptions : InitWith(options)

\* The function reads maxSamples and samplingMethod and writes no field.
CallSample ==
  /\ probe = NoCall
  /\ \E data \in SampleInputs :
       \E draws \in Draws(data, fields.maxSamples, fields.samplingMethod) :
         probe' = [fn |-> "sample", data |-> data, draws |-> draws,
                   out |-> sample(data, fields.maxSamples,
                                  fields.samplingMethod, draws)]
  /\ UNCHANGED <<isPlaying, paused, playQueue, oscillators, enqueued, started,
                 discarded, held, last, fields, harmonicScaleBuckets, deviceOk,
                 thrown>>

SampleSpec == SampleInit /\ [][CallSample]_vars

(* ---------------------- playNote with any note name -------------------- *)

\* type Note, in the order of its declaration.
Note == <<"A", "Bb", "B", "C", "Db", "D", "Eb", "E", "F", "Gb", "G", "Ab">>

\* The names of the Note type, and one that a caller without the type
\* checker can pass.
AnyNotes == SeqRange(Note) \cup {"H"}

PlayAnyNote ==
  /\ Len(enqueued) < MaxNotes
  /\ \E note \in AnyNotes, duration \in Durations :
       /\ Effect("playNote", playNote(Cur, note, duration))
       /\ probe' = [fn |-> "playNote", note |-> note, duration |-> duration]
  /\ UNCHANGED <<fields, harmonicScaleBuckets, deviceOk>>

NoteNext == PlayAnyNote \/ Pause \/ Stop \/ Play \/ OnEnded

NoteSpec == Init /\ [][NoteNext]_vars

(* ------------------- construction and the public fields ---------------- *)

\* The baseFrequency, scales and scale a caller gives (0: not given).
BaseFrequencies == {220, 440}

ConfigOptions ==
  {[NoOptions EXCEPT !.baseFrequency = b, !.scales = n, !.scale = t] :
     b \in {0} \cup BaseFrequencies, n \in 0..MaxScales,
     t \in {"major", "minor"}}

\* new Sonifier(options): an instance with nothing played yet.
Construct ==
  \E options \in ConfigOptions :
    LET n == newSonifier(options)
    IN /\ isPlaying' = n.isPlaying
       /\ paused' = n.paused
       /\ playQueue' = n.playQueue
       /\ oscillators' = n.oscillators
       /\ enqueued' = n.enqueued
       /\ started' = n.started
       /\ discarded' = n.discarded
       /\ held' = n.held
       /\ last' = n.last
       /\ fields' = n.fields
       /\ harmonicScaleBuckets' = n.harmonicScaleBuckets
       /\ deviceOk' = n.deviceOk
       /\ thrown' = n.thrown
       /\ probe' = n.probe

\* The class has no setter for baseFrequency, scales and scale: they are
\* public fields, changed by assignment. Nothing else is written.
Assign(field, value) ==
  /\ fields' = [fields EXCEPT ![field] = value]
  /\ probe' = [fn |-> "assign", field |-> field]
  /\ UNCHANGED <<isPlaying, paused, playQueue, oscillators, enqueued, started,
                 discarded, held, last, harmonicScaleBuckets, deviceOk, thrown>>

SetBaseFrequency == \E b \in BaseFrequencies : Assign("baseFrequency", b)

SetScales == \E n \in 1..MaxScales : Assign("scales", n)

SetScale == \E t \in {"major", "minor"} : Assign("scale", t)

ConfigNext == Construct \/ SetBaseFrequency \/ SetScales \/ SetScale

ConfigSpec == Init /\ [][ConfigNext]_vars

(* ----------------------- an output device that fails ------------------ *)

\* The audio context stops accepting oscillators: every later
\* createOscillator/start in _advancePlayQueue throws.
DeviceFails ==
  /\ deviceOk
  /\ deviceOk' = FALSE
  /\ UNCHANGED <<isPlaying, paused, playQueue, oscillators, enqueued, started,
                 discarded, held, last, fields, harmonicScaleBuckets, thrown,
                 probe>>

FailNext == Next \/ DeviceFails

FailSpec == Init /\ [][FailNext]_vars

(* ----------------------- setVolume and setInstrument ------------------ *)

\* The fields of Cur with _volume and instrument.
CurSettings ==
  [isPlaying |-> isPlaying, paused |-> paused, playQueue |-> playQueue,
   oscillators |-> oscillators, enqueued |-> enqueued, started |-> started,
   discarded |-> discarded, deviceOk |-> deviceOk, thrown |-> FALSE,
   volume |-> fields.volume, instrument |-> fields.instrument]

\* A setVolume that starts playback afresh.
setVolume_stopping(s, v) == [stop(s) EXCEPT !.volume = v]

setVolume(s, v) == [s EXCEPT !.volume = v]

setInstrument(s, i) == [s EXCEPT !.instrument = i]

\* Volumes in hundredths, and two of the types getInstruments() lists.
Volumes == {3, 50}

Instruments == {"sine", "square"}

Setting(op, value, s) ==
  /\ Effect(op, s)
  /\ fields' = [fields EXCEPT !.volume = s.volume, !.instrument = s.instrument]
  /\ probe' = [fn |-> op, value |-> value, before |-> fields]
  /\ UNCHANGED <<harmonicScaleBuckets, deviceOk>>

SetVolume == \E v \in Volumes : Setting("setVolume", v, setVolume(CurSettings, v))

SetInstrument ==
  \E i \in Instruments : Setting("setInstrument", i, setInstrument(CurSettings, i))

\* playNote('A', duration): the tones the settings are changed around.
PlayA ==
  /\ Len(enqueued) < MaxEnqueued
  /\ \E duration \in Durations : Becomes("playNote", playNote(Cur, "A", duration))

SettingsNext ==
  PlayA \/ Pause \/ Stop \/ Play \/ OnEnded \/ SetVolume \/ SetInstrument

SettingsSpec == Init /\ [][SettingsNext]_vars

(* ------------------------ playSeries of no samples --------------------- *)

\* playSeries([]) and playSeries([], limits), told apart from the other
\* calls of playSeries by the name of the operation.
PlayEmptySeries ==
  \E limits \in LimitInputs :
    Becomes("playSeries([])", playSeries(Cur, <<>>, limits, <<>>))

EmptySeriesNext == Next \/ PlayEmptySeries

EmptySeriesSpec == Init /\ [][EmptySeriesNext]_vars

(* ------------------------------ properties ----------------------------- *)

\* The tones the last call started and the tones it enqueued.
StartedBy == SubSeq(started, last.nStarted + 1, Len(started))

EnqueuedBy == SubSeq(enqueued, last.nEnqueued + 1, Len(enqueued))

IsEnqueue == last.op \in {"playNote", "playSeries"} /\ Len(EnqueuedBy) > 0

IsPrefix(a, b) == Len(a) <= Len(b) /\ SubSeq(b, 1, Len(a)) = a

\* C1: at most one tone has been started and has not yet ended, whatever
\* calls and ended events came before.
C1_SingleActiveTone == Len(oscillators) <= 1

\* C2: an enqueue made while the paused flag is set starts no tone: the
\* tones it enqueues are appended to the queue and wait there.
C2_PausedEnqueueWaits ==
  (IsEnqueue /\ last.paused) =>
    /\ StartedBy = <<>>
    /\ playQueue = last.playQueue \o EnqueuedBy

\* C3: play() called while a tone is sounding starts no tone and dequeues
\* nothing; it only clears the paused flag.
C3_PlayWhileSounding ==
  (last.op = "play" /\ Len(last.oscillators) > 0) =>
    /\ StartedBy = <<>>
    /\ playQueue = last.playQueue
    /\ oscillators = last.oscillators
    /\ ~paused

C5_PauseHoldsQueue ==
  /\ last.op = "pause" =>
       playQueue = last.playQueue /\ oscillators = last.oscillators
  /\ (last.op = "onended" /\ last.paused) => (StartedBy = <<>> /\ ~isPlaying)
  /\ paused => IsPrefix(held, playQueue)

\* C6: stop() leaves the queue empty and the paused flag set and starts
\* nothing; no tone it removed from the queue is started later; and play()
\* called with the queue still empty starts nothing.
C6_StopDiscards ==
  /\ last.op = "stop" => (playQueue = <<>> /\ paused /\ StartedBy = <<>>)
  /\ \A i \in 1..Len(started) : started[i].id \notin discarded
  /\ (last.op = "play" /\ Len(last.playQueue) = 0) =>
       (StartedBy = <<>> /\ oscillators = last.oscillators)

\* play() after a stop() that removed the last tone enqueued.
C6_Witness ==
  /\ last.op = "play" /\ last.paused /\ Len(last.playQueue) = 0
  /\ Len(enqueued) \in discarded
  /\ Cardinality(discarded) >= 2
  /\ Len(started) >= 1

\* C7: play() called with the paused flag set and no tone sounding clears
\* the flag; when the queue is not empty it dequeues the head alone and
\* starts it (one start, isPlaying set); when it is empty it starts nothing.
C7_Resume ==
  (last.op = "play" /\ last.paused /\ Len(last.oscillators) = 0) =>
    /\ ~paused
    /\ IF Len(last.playQueue) > 0
         THEN /\ playQueue = Tail(last.playQueue)
              /\ StartedBy = <<Head(last.playQueue)>>
              /\ oscillators = <<Head(last.playQueue)>>
              /\ isPlaying
         ELSE /\ playQueue = <<>>
              /\ StartedBy = <<>>
              /\ oscillators = <<>>
              /\ isPlaying = last.isPlaying

C7_Witness ==
  /\ last.op = "play" /\ last.paused /\ Len(last.oscillators) = 0
  /\ Len(last.playQueue) >= 2
  /\ Len(StartedBy) = 1

\* C8: the tones started are tones enqueued, in the order they were
\* enqueued, and none is started twice.
C8_Fifo ==
  /\ \A i \in 1..Len(started) :
       /\ started[i].id \in 1..Len(enqueued)
       /\ started[i] = enqueued[started[i].id]
  /\ \A i, j \in 1..Len(started) : i < j => started[i].id < started[j].id

\* Two tones started around a tone that stop() removed, after a pause.
C8_Witness ==
  /\ Len(started) >= 2
  /\ started[Len(started)].id > Len(started)
  /\ discarded # {}

\* C9: when stop() is never called, the tones enqueued are the tones
\* started followed by the tones in the queue.
C9_NothingLost == enqueued = started \o playQueue

\* A resume after a pause, with tones started and tones waiting.
C9_Witness ==
  /\ last.op = "play" /\ last.paused
  /\ Len(started) >= 2
  /\ Len(playQueue) >= 1

Idle == Len(playQueue) = 0 /\ Len(oscillators) = 0 /\ ~isPlaying

\* C10: when stop() is never called, every tone started ends and every
\* pause() is followed by a play(), every tone enqueued is started in the
\* end, and the scheduler is idle again (queue empty, isPlaying false).
\* (enqueued and started only grow, so a tone enqueued before a state in
\* which started = enqueued has been started by then.)
C10_Drains == []<>(Idle /\ started = enqueued)

\* The queue drained after a pause held tones back.
C10_Witness ==
  /\ Idle
  /\ last.op = "onended"
  /\ Len(started) >= 3
  /\ started = enqueued

(* ------------------- properties of _harmonizeFrequencies ---------------- *)

\* The frequency pushed for the i-th sample of data in the loop of
\* _harmonizeFrequencies: the samples are told apart by their position.
Assigned(data, limits, buckets) ==
  LET tagged == [i \in 1..Len(data) |-> <<data[i][1], data[i][2], i>>]
      sortedByValue == SortBy(tagged, 2)
      pushed == harmonizedByValue(data, limits, buckets)
  IN [i \in 1..Len(data) |->
        pushed[CHOOSE k \in 1..Len(data) : sortedByValue[k][3] = i][2]]

ProbeAssigned ==
  Assigned(probe.data, probe.limits, harmonicScaleBuckets.semis)

Chronological(data) ==
  \A i \in 1..(Len(data) - 1) : data[i][1] <= data[i + 1][1]

\* C11: for data in chronological order (equal timestamps allowed), the
\* output has one frequency per sample and its i-th entry is the frequency
\* assigned to the i-th sample.
C11_OrderPreserved ==
  (probe.fn = "harmonize" /\ Chronological(probe.data)) =>
    LET assigned == ProbeAssigned
    IN /\ Len(probe.out) = Len(probe.data)
       /\ \A i \in 1..Len(probe.data) : probe.out[i] = assigned[i]

\* x <= y of JavaScript for two frequencies: false when one is undefined.
FreqLeq(x, y) == x # Undefined /\ y # Undefined /\ x <= y

\* C12: of two samples of one call, the one with the smaller value is
\* assigned a frequency less than or equal to the other's.
C12_RankPreserved ==
  probe.fn = "harmonize" =>
    LET assigned == ProbeAssigned
    IN \A i, j \in 1..Len(probe.data) :
         probe.data[i][2] < probe.data[j][2] =>
           FreqLeq(assigned[i], assigned[j])

\* C13: when all values are equal and so min = max, every sample is
\* assigned the base frequency, the first bucket.
C13_ZeroRange ==
  (/\ probe.fn = "harmonize"
   /\ \A i \in 1..Len(probe.data) : probe.data[i][2] = probe.data[1][2]
   /\ lowerLimit(probe.data, probe.limits) = upperLimit(probe.data, probe.limits)) =>
    \A i \in 1..Len(probe.out) :
      probe.out[i] = BucketAt(harmonicScaleBuckets.semis, 0)

(* -------------------------- properties of _sample ----------------------- *)

\* C14: a series shorter than maxSamples is returned as it is, same samples
\* in the same order, by the systematic and by the random strategy.
C14_PassThrough ==
  (probe.fn = "sample" /\ Len(probe.data) < fields.maxSamples) =>
    probe.out = probe.data

C14_Witness ==
  /\ probe.fn = "sample"
  /\ fields.samplingMethod = "random"
  /\ Len(probe.data) = 2
  /\ Len(probe.data) < fields.maxSamples
  /\ probe.out = probe.data

\* C15 as stated: with maxSamples >= 2 the returned sequence has at most
\* maxSamples entries.
C15_AtMostCap ==
  (probe.fn = "sample" /\ fields.maxSamples >= 2) =>
    Len(probe.out) <= fields.maxSamples

\* C15: with maxSamples >= 2 the returned sequence has fewer than twice
\* maxSamples entries, and no more than the series has.
C15_LessThanTwiceCap ==
  (probe.fn = "sample" /\ fields.maxSamples >= 2) =>
    /\ Len(probe.out) <= 2 * fields.maxSamples - 1
    /\ Len(probe.out) <= Len(probe.data)

C15_Witness ==
  /\ probe.fn = "sample"
  /\ fields.maxSamples >= 2
  /\ Len(probe.out) = 2 * fields.maxSamples - 1

(* -------------------------- properties of playNote ---------------------- *)

\* The position of a name in the Note type, counted from 0.
Offset(note) == (CHOOSE k \in 1..Len(Note) : Note[k] = note) - 1

\* C16: playNote with the k-th name of the Note type (k = 0..11) enqueues
\* exactly one tone, k semitones above the base frequency, with the given
\* duration.
C16_NoteOffsets ==
  (last.op = "playNote" /\ probe.note \in SeqRange(Note)) =>
    /\ Len(enqueued) = last.nEnqueued + 1
    /\ enqueued[Len(enqueued)].f = Offset(probe.note)
    /\ enqueued[Len(enqueued)].t = probe.duration

\* C17: playNote with a name that is not in SemitoneMapping reports an
\* error and leaves the queue, isPlaying and the oscillators as they were:
\* no tone is enqueued or started.
C17_UnknownNoteRejected ==
  (last.op = "playNote" /\ probe.note \notin DOMAIN SemitoneMapping) =>
    /\ thrown
    /\ playQueue = last.playQueue
    /\ isPlaying = last.isPlaying
    /\ oscillators = last.oscillators
    /\ Len(enqueued) = last.nEnqueued
    /\ Len(started) = last.nStarted

(* ---------------------- properties of the bucket set ------------------- *)

\* C18 (buckets track the configuration): after an assignment to
\* baseFrequency, scale or scales the bucket array that playSeries reads is
\* the one built from the current baseFrequency, scale and scales.
C18_BucketsTrackConfiguration ==
  probe.fn = "assign" => harmonicScaleBuckets = builtBuckets(fields)

\* 10000 times the k-th bucket (k = 1, 2, ...).
Bucket(b, k) == b.base * Pow(b.semis[k])

\* C19: the bucket sequence built for a base frequency, a scale (major or
\* minor) and scales >= 1 has 8 * scales entries, starts with the base
\* frequency and never decreases.
C19_BucketSequence ==
  (probe.fn = "new" /\ fields.scales >= 1) =>
    LET b == harmonicScaleBuckets
    IN /\ Len(b.semis) = 8 * fields.scales
       /\ Bucket(b, 1) = fields.baseFrequency * Pow(0)
       /\ \A k \in 1..(Len(b.semis) - 1) : Bucket(b, k) <= Bucket(b, k + 1)

C19_Witness ==
  /\ probe.fn = "new"
  /\ fields = [construct(NoOptions) EXCEPT !.baseFrequency = 220, !.scales = 2,
                                           !.scale = "minor"]
  /\ harmonicScaleBuckets.base = 220
  /\ harmonicScaleBuckets.semis =
       <<0, 2, 3, 5, 7, 8, 11, 12, 14, 16, 17, 19, 21, 22, 25, 26>>

(* ----------------------- properties of a device failure ---------------- *)

\* C20: when the start of a tone fails, in a call or in an ended callback,
\* the tones still waiting are given up and the scheduler is not left with
\* isPlaying set while no tone sounds.
C20_FailureAborts ==
  thrown =>
    /\ playQueue = <<>>
    /\ isPlaying => Len(oscillators) > 0

(* ----------------- properties of setVolume and setInstrument ----------- *)

\* C21: setVolume changes the volume only and setInstrument the instrument
\* only: the queue, the paused flag, isPlaying and the oscillators started
\* are as they were before the call.
C21_SettingsFrame ==
  last.op \in {"setVolume", "setInstrument"} =>
    /\ playQueue = last.playQueue
    /\ paused = last.paused
    /\ isPlaying = last.isPlaying
    /\ oscillators = last.oscillators
    /\ Len(started) = last.nStarted
    /\ Len(enqueued) = last.nEnqueued
    /\ ~thrown
    /\ last.op = "setVolume" =>
         fields = [probe.before EXCEPT !.volume = probe.value]
    /\ last.op = "setInstrument" =>
         fields = [probe.before EXCEPT !.instrument = probe.value]

C21_Witness ==
  /\ last.op = "setVolume"
  /\ fields.volume # probe.before.volume
  /\ Len(oscillators) > 0
  /\ Len(playQueue) > 0
  /\ isPlaying

(* --------------------- properties of playSeries([]) -------------------- *)

\* C22: playSeries with an empty series throws nothing, enqueues nothing,
\* starts nothing and leaves the queue, paused and isPlaying as they were,
\* whatever the state of the scheduler.
C22_EmptySeriesNoOp ==
  last.op = "playSeries([])" =>
    /\ ~thrown
    /\ Len(enqueued) = last.nEnqueued
    /\ Len(started) = last.nStarted
    /\ oscillators = last.oscillators
    /\ playQueue = last.playQueue
    /\ paused = last.paused
    /\ isPlaying = last.isPlaying

C22_Witness ==
  /\ last.op = "playSeries([])"
  /\ paused
  /\ Len(playQueue) > 0
  /\ Len(oscillators) > 0

(* ------------------ properties of the override range ------------------ *)

\* C23: when limits are given, limits.min and limits.max are the bounds of
\* the interpolation, a bound of 0 included: the frequencies pushed are
\* those the loop computes with min = limits.min and max = limits.max.
C23_OverrideBoundsUsed ==
  (probe.fn = "harmonize" /\ probe.limits.given) =>
    harmonizedByValue(probe.data, probe.limits, harmonicScaleBuckets.semis)
      = Quantize(SortBy(probe.data, 2), 1, 1, probe.limits.min,
                 probe.limits.max, harmonicScaleBuckets.semis)

(* -------------------- properties of the octave structure --------------- *)

\* C24: each walk of the steps of the scale adds 12 semitones, so for every
\* k < scales the bucket at index 8 * k (counted from 0) is the base
\* frequency times 2^k.
C24_OctaveStructure ==
  probe.fn = "new" =>
    \A k \in 0..(fields.scales - 1) :
      Bucket(harmonicScaleBuckets, 8 * k + 1)
        = fields.baseFrequency * TwoTo(k) * Pow(0)

(* ----------------------- properties of a cap of 1 ---------------------- *)

\* C25: with maxSamples <= 1 a series that is not empty is returned as it
\* is, without decimation.
C25_DegenerateCap ==
  (probe.fn = "sample" /\ fields.maxSamples <= 1 /\ Len(probe.data) >= 1) =>
    probe.out = probe.data

(* -------------------- properties of the two strategies ----------------- *)

\* The indices (counted from 0) of the samples the call in probe emitted:
\* _sample applied to the series of the indices.
ProbeIndices ==
  sample([i \in 1..Len(probe.data) |-> i - 1], fields.maxSamples,
         fields.samplingMethod, probe.draws)

ProbeStep == Step(probe.data, fields.maxSamples)

\* C26: when step >= 2, the k-th sample the random strategy emits
\* (k = 0, 1, ...) has an index in [k * step, (k + 1) * step), and the
\* indices emitted increase strictly.
C26_RandomWindows ==
  (probe.fn = "sample" /\ fields.samplingMethod = "random" /\ ProbeStep >= 2) =>
    LET idx == ProbeIndices
    IN /\ \A k \in 1..Len(idx) :
            (k - 1) * ProbeStep <= idx[k] /\ idx[k] < k * ProbeStep
       /\ \A k \in 1..(Len(idx) - 1) : idx[k] < idx[k + 1]

\* C27: when step >= 2, the systematic strategy returns the samples at the
\* indices 0, step, 2 * step, ..., the start of each window of step samples
\* of the series, in that order (stated for maxSamples >= 2; C25 is about
\* a maxSamples of 1).
C27_SystematicStarts ==
  (/\ probe.fn = "sample"
   /\ fields.samplingMethod = "systematic"
   /\ fields.maxSamples >= 2
   /\ ProbeStep >= 2) =>
    ProbeIndices =
      [k \in 1..(((Len(probe.data) - 1) \div ProbeStep) + 1) |->
         (k - 1) * ProbeStep]

(* ---------------------- properties of the staircase -------------------- *)

\* The index (counted from 0) of the bucket a pushed frequency was read
\* from: the buckets increase strictly, and undefined is read at the index
\* just past the end, where the index stops.
IndexOf(buckets, f) ==
  IF f = Undefined THEN Len(buckets)
  ELSE (CHOOSE j \in 1..Len(buckets) : buckets[j] = f) - 1

\* The bucket indices of the frequencies pushed, in ascending order of value.
PushedIndices(data, limits, buckets) ==
  LET pushed == harmonizedByValue(data, limits, buckets)
  IN [k \in 1..Len(pushed) |-> IndexOf(buckets, pushed[k][2])]

\* C28: in ascending order of value, the bucket index of a sample is the
\* index of the sample before it (1 before the first sample), or that index
\* plus one, and it is the index plus one exactly when the interpolated
\* frequency of the sample is greater than the bucket at that index.
C28_Staircase ==
  probe.fn = "harmonize" =>
    LET buckets == harmonicScaleBuckets.semis
        sorted == SortBy(probe.data, 2)
        min == lowerLimit(sorted, probe.limits)
        max == upperLimit(sorted, probe.limits)
        idx == PushedIndices(probe.data, probe.limits, buckets)
    IN \A k \in 1..Len(idx) :
         LET before == IF k = 1 THEN 1 ELSE idx[k - 1]
         IN idx[k] = IF Exceeds(sorted[k][2], min, max, buckets, before)
                       THEN before + 1 ELSE before

C28_Witness ==
  /\ probe.fn = "harmonize"
  /\ probe.limits = NoLimits
  /\ LET idx == PushedIndices(probe.data, probe.limits,
                              harmonicScaleBuckets.semis)
     IN idx = <<1, 2, 3, 4, 5, 5, 6>>

(* ------------------ properties of the frequencies played --------------- *)

\* C29: every frequency _harmonizeFrequencies returns, which playSeries
\* enqueues as it is, is one of the buckets, whatever the limits: none is
\* undefined.
C29_FrequenciesAreBuckets ==
  probe.fn = "harmonize" =>
    \A i \in 1..Len(probe.out) :
      probe.out[i] \in SeqRange(harmonicScaleBuckets.semis)

(* --------------------------- properties of isPlaying -------------------- *)

\* C30: between two events, isPlaying is true exactly when an oscillator
\* has been started and has not ended.
C30_IsPlayingAccurate == isPlaying <=> Len(oscillators) > 0

====
